---- MODULE Spec2Model ----
(***************************************************************************)
(* Model of src/lambda.py: the S3-triggered handler that renders a         *)
(* template from a job document and sends one SES e-mail per recipient     *)
(* row.  Strings are sequences of one-character strings, so that           *)
(* str.replace is modelled by what it does.                                *)
(***************************************************************************)
EXTENDS Integers, Sequences, FiniteSets, TLC

(* ------------------------------ bounds --------------------------------- *)
\* data rows of a recipient table
MaxRows == 2
\* deliveries of the same trigger (SpecDup)
MaxDeliveries == 2
\* length of a generated placeholder key; a generated value is at most one
\* shorter and a generated template at most one longer (SpecRender)
MaxStr == 2

(* --------------------------- string literals --------------------------- *)
PATH_TO_TEXT_FILE == <<"p", "a", "t", "h", "_", "t", "o", "_", "t", "e", "x", "t", "_", "f", "i", "l", "e">>
PATH_TO_CUSTOMER_FILE == <<"p", "a", "t", "h", "_", "t", "o", "_", "c", "u", "s", "t", "o", "m", "e", "r", "_", "f", "i", "l", "e">>
SUBJECT == <<"s", "u", "b", "j", "e", "c", "t">>
CUSTOMER_NAME == <<"c", "u", "s", "t", "o", "m", "e", "r", "_", "n", "a", "m", "e">>

\* the objects of the bucket and the values used in the sample inputs
TplPath == <<"t", "p", "l", ".", "t", "x", "t">>
CustPath == <<"c", "u", "s", "t", ".", "c", "s", "v">>
Hi == <<"H", "i">>
Greeting == <<"g", "r", "e", "e", "t", "i", "n", "g">>
Hello == <<"H", "e", "l", "l", "o">>
DearToken == <<"D", "e", "a", "r", " ", "c", "u", "s", "t", "o", "m", "e", "r", "_", "n", "a", "m", "e">>
Count == <<"c", "o", "u", "n", "t">>
Tpl1 == <<"g", "r", "e", "e", "t", "i", "n", "g", " ", "c", "u", "s", "t", "o", "m", "e", "r", "_", "n", "a", "m", "e">>
Tpl2 == <<"c", "u", "s", "t", "o", "m", "e", "r", "_", "n", "a", "m", "e", ":", "c", "u", "s", "t", "o", "m", "e", "r", "_", "n", "a", "m", "e">>
Alice == <<"A", "l", "i", "c", "e">>
AliceMail == <<"a", "@", "x", ".", "c", "o", "m">>
Bob == <<"B", "o", "b">>
BobMail == <<"b", "@", "x", ".", "c", "o", "m">>
Carol == <<"C", "a", "r", "o", "l">>
NameCol == <<"n", "a", "m", "e">>
EmailCol == <<"e", "m", "a", "i", "l">>
HelloAlice == <<"H", "e", "l", "l", "o", " ", "A", "l", "i", "c", "e">>
HelloBob == <<"H", "e", "l", "l", "o", " ", "B", "o", "b">>

\* characters of the generated keys, values and templates (SpecRender)
Alphabet == {"A", "B"}

(* ------------------------------ helpers -------------------------------- *)
\* all strings over cs of length lo..hi
Strings(cs, lo, hi) == UNION {[1..n -> cs] : n \in lo..hi}

\* does old occur in s at position p
MatchAt(s, old, p) ==
    /\ p + Len(old) - 1 <= Len(s)
    /\ SubSeq(s, p, p + Len(old) - 1) = old

\* `old in s`
Occurs(old, s) == \E p \in 1..(Len(s) + 1) : MatchAt(s, old, p)

RECURSIVE ReplaceFrom(_, _, _, _)
ReplaceFrom(s, old, new, p) ==
    IF p > Len(s) THEN <<>>
    ELSE IF MatchAt(s, old, p)
         THEN new \o ReplaceFrom(s, old, new, p + Len(old))
         ELSE <<s[p]>> \o ReplaceFrom(s, old, new, p + 1)

RECURSIVE Interleave(_, _)
Interleave(s, new) ==
    IF s = <<>> THEN <<>> ELSE <<Head(s)>> \o new \o Interleave(Tail(s), new)

\* replaces only the leftmost occurrence (str.replace(old, new, 1))
ReplaceFirst(s, old, new) ==
    IF \E p \in 1..Len(s) : MatchAt(s, old, p)
    THEN LET p == CHOOSE q \in 1..Len(s) :
                      /\ MatchAt(s, old, q)
                      /\ \A r \in 1..(q - 1) : ~MatchAt(s, old, r)
         IN SubSeq(s, 1, p - 1) \o new \o SubSeq(s, p + Len(old), Len(s))
    ELSE s

\* str.replace(old, new): every non-overlapping occurrence, left to right;
\* an empty old inserts new before every character and at the end
Replace(s, old, new) ==
    IF old = <<>> THEN new \o Interleave(s, new)
    ELSE ReplaceFrom(s, old, new, 1)

(* ------------------------- the job document ---------------------------- *)
\* one (key, value) pair of the parsed JSON object; isStr is false for a
\* value that is not a JSON string
Item(k, v) == [key |-> k, isStr |-> TRUE, value |-> v]
NonStrItem(k) == [key |-> k, isStr |-> FALSE, value |-> <<>>]

HasKey(doc, k) == \E n \in 1..Len(doc) : doc[n].key = k
Get(doc, k) == doc[CHOOSE n \in 1..Len(doc) : doc[n].key = k]

\* pass 1 replacing only the first occurrence of every key
RECURSIVE Pass1Once(_, _)
Pass1Once(items, t) ==
    IF items = <<>> THEN t
    ELSE Pass1Once(Tail(items), ReplaceFirst(t, Head(items).key, Head(items).value))

\* for key1, value in json_content.items(): original_text = original_text.replace(key1, value)
RECURSIVE Pass1(_, _)
Pass1(items, t) ==
    IF items = <<>> THEN t
    ELSE Pass1(Tail(items), Replace(t, Head(items).key, Head(items).value))

\* str.replace raises TypeError on a value that is not a string
Pass1Fails(items) == \E n \in 1..Len(items) : ~items[n].isStr

(* ------------------------------ inputs --------------------------------- *)
ItemP == Item(PATH_TO_TEXT_FILE, TplPath)
ItemC == Item(PATH_TO_CUSTOMER_FILE, CustPath)
ItemS == Item(SUBJECT, Hi)
ItemG == Item(Greeting, Hello)
ItemG2 == Item(Greeting, DearToken)
ItemN == NonStrItem(Count)

ExampleDoc == <<ItemP, ItemC, ItemS, ItemG>>

\* the order-preserving sub-documents of d
RECURSIVE SubDocs(_)
SubDocs(d) ==
    IF d = <<>> THEN {<<>>}
    ELSE LET rest == SubDocs(Tail(d))
         IN rest \cup {<<Head(d)>> \o r : r \in rest}

SampleDocs ==
    SubDocs(ExampleDoc) \cup {<<ItemP, ItemC, ItemS, ItemG2>>, <<ItemP, ItemC, ItemS, ItemG, ItemN>>}

JobObjects ==
    {[status |-> "missing", doc |-> <<>>], [status |-> "malformed", doc |-> <<>>]}
    \cup {[status |-> "ok", doc |-> d] : d \in SampleDocs}

TextObjects(ts) ==
    {[exists |-> FALSE, text |-> <<>>]} \cup {[exists |-> TRUE, text |-> t] : t \in ts}

HeaderRow == <<NameCol, EmailCol>>
AliceRow == <<Alice, AliceMail>>
BobRow == <<Bob, BobMail>>
\* a third column is ignored
TokenRow == <<CUSTOMER_NAME, AliceMail, Carol>>
ShortRow == <<Carol>>
BlankRow == <<>>
DataRows == {AliceRow, BobRow, TokenRow, ShortRow, BlankRow}

\* the parsed tables: no row at all, or a header followed by n data rows
Tables(rows, n) == {<<>>} \cup {<<HeaderRow>> \o d : d \in Strings(rows, 0, n)}

TableObjects(ts) ==
    {[exists |-> FALSE, rows |-> <<>>]} \cup {[exists |-> TRUE, rows |-> t] : t \in ts}

\* event['Records'][0]['s3'][...]: shaped says whether a record has the
\* bucket name and the object key
Events ==
    {[hasRecords |-> FALSE, Records |-> <<>>]}
    \cup {[hasRecords |-> TRUE, Records |-> r] :
            r \in {<<>>, <<[shaped |-> FALSE]>>, <<[shaped |-> TRUE]>>,
                   <<[shaped |-> TRUE], [shaped |-> FALSE]>>}}

GoodEvent == [hasRecords |-> TRUE, Records |-> <<[shaped |-> TRUE]>>]

(* ------------------------------- state --------------------------------- *)
VARIABLES
    event,          \* the trigger, the same for every delivery
    jobObj,         \* the bucket object named by the trigger
    tplObj,         \* the bucket object at TplPath
    custObj,        \* the bucket object at CustPath, as csv.reader parses it
    env,            \* is SES_SOURCE_EMAIL set
    deliveries,     \* how many times the trigger is delivered
    pc,             \* position of every invocation
    json_content,   \* locals of every invocation
    original_text,
    reader,         \* index of the next row the reader yields
    customer_name,
    email,
    text,
    outcome,        \* how the send statement of the current row ended
    trace,          \* send statements executed and lines printed, in order
    result          \* how lambda_handler ended

inputs == <<event, jobObj, tplObj, custObj, env, deliveries>>
locals == <<json_content, original_text, reader, customer_name, email, text, outcome>>
vars == <<event, jobObj, tplObj, custObj, env, deliveries, pc, json_content,
          original_text, reader, customer_name, email, text, outcome, trace, result>>

Invocations == 1..deliveries

(* ------------------------- printed lines, sends ------------------------ *)
\* one execution of the statement ses_client.send_email(...) for a data row,
\* called a dispatch attempt; info is how the statement ended: "ok" or
\* "ClientError" when the arguments evaluated and SES was called, "KeyError"
\* when os.environ['SES_SOURCE_EMAIL'] or json_content["subject"] raised first
AttemptEv(j, to, b, how) == [type |-> "attempt", row |-> j, email |-> to, body |-> b, info |-> how]
\* print(f"Email sent to {email}")
SentEv(j, to) == [type |-> "sent", row |-> j, email |-> to, body |-> <<>>, info |-> "ok"]
\* print(f"Error sending email to {email}: {str(e)}")
SendErrorEv(j, to, e) == [type |-> "send_error", row |-> j, email |-> to, body |-> <<>>, info |-> e]
\* print(f"Error in lambda_handler: {str(e)}")
HandlerErrorEv == [type |-> "handler_error", row |-> 0, email |-> <<>>, body |-> <<>>, info |-> "error"]

\* what the SES call itself can do
SesResults == {"ok", "ClientError"}

(* ------------------------------ Init ----------------------------------- *)
InitLocals ==
    /\ pc = [i \in Invocations |-> "extract"]
    /\ json_content = [i \in Invocations |-> <<>>]
    /\ original_text = [i \in Invocations |-> <<>>]
    /\ reader = [i \in Invocations |-> 0]
    /\ customer_name = [i \in Invocations |-> <<>>]
    /\ email = [i \in Invocations |-> <<>>]
    /\ text = [i \in Invocations |-> <<>>]
    /\ outcome = [i \in Invocations |-> "none"]
    /\ trace = [i \in Invocations |-> <<>>]
    /\ result = [i \in Invocations |-> "running"]

\* one delivery, every kind of input
Init ==
    /\ event \in Events
    /\ jobObj \in JobObjects
    /\ tplObj \in TextObjects({Tpl1, Tpl2})
    /\ custObj \in TableObjects(Tables(DataRows, MaxRows))
    /\ env \in BOOLEAN
    /\ deliveries = 1
    /\ InitLocals

(* ----------------------------- actions --------------------------------- *)
Goto(i, l) ==
    /\ pc' = [pc EXCEPT ![i] = l]
    /\ UNCHANGED <<trace, result>>

\* the handler lets the exception escape
OuterRaise(i) ==
    /\ pc' = [pc EXCEPT ![i] = "done"]
    /\ result' = [result EXCEPT ![i] = "raised"]
    /\ UNCHANGED trace

\* except Exception as e: print(...); the handler then returns None
OuterExcept(i) ==
    /\ pc' = [pc EXCEPT ![i] = "done"]
    /\ trace' = [trace EXCEPT ![i] = Append(@, HandlerErrorEv)]
    /\ result' = [result EXCEPT ![i] = "returned"]

\* event['Records'][0]['s3']['bucket']['name'] and ['object']['key']
EventOk(ev) ==
    /\ ev.hasRecords
    /\ Len(ev.Records) >= 1
    /\ ev.Records[1].shaped

Extract(i) ==
    /\ pc[i] = "extract"
    /\ IF EventOk(event) THEN Goto(i, "read_json") ELSE OuterExcept(i)
    /\ UNCHANGED <<inputs, locals>>

\* json_content = read_s3_json_file(bucket, key)
ReadJson(i) ==
    /\ pc[i] = "read_json"
    /\ IF jobObj.status = "ok"
       THEN /\ json_content' = [json_content EXCEPT ![i] = jobObj.doc]
            /\ Goto(i, "read_text")
       ELSE /\ OuterExcept(i)
            /\ UNCHANGED json_content
    /\ UNCHANGED <<inputs, original_text, reader, customer_name, email, text, outcome>>

\* can get_object return the object that doc[k] names
Readable(doc, k, path, exists) ==
    /\ HasKey(doc, k)
    /\ Get(doc, k).isStr
    /\ Get(doc, k).value = path
    /\ exists

\* original_text = read_s3_file(bucket, json_content["path_to_text_file"])
ReadText(i) ==
    /\ pc[i] = "read_text"
    /\ IF Readable(json_content[i], PATH_TO_TEXT_FILE, TplPath, tplObj.exists)
       THEN /\ original_text' = [original_text EXCEPT ![i] = tplObj.text]
            /\ Goto(i, "pass1")
       ELSE /\ OuterExcept(i)
            /\ UNCHANGED original_text
    /\ UNCHANGED <<inputs, json_content, reader, customer_name, email, text, outcome>>

\* the placeholder loop
SubstituteAll(i) ==
    /\ pc[i] = "pass1"
    /\ IF ~Pass1Fails(json_content[i])
       THEN /\ original_text' = [original_text EXCEPT ![i] = Pass1(json_content[i], @)]
            /\ Goto(i, "read_csv")
       ELSE /\ OuterExcept(i)
            /\ UNCHANGED original_text
    /\ UNCHANGED <<inputs, json_content, reader, customer_name, email, text, outcome>>

\* get_object of json_content["path_to_customer_file"], csv.reader over it
ReadCsv(i) ==
    /\ pc[i] = "read_csv"
    /\ IF Readable(json_content[i], PATH_TO_CUSTOMER_FILE, CustPath, custObj.exists)
       THEN /\ reader' = [reader EXCEPT ![i] = 1]
            /\ Goto(i, "skip_header")
       ELSE /\ OuterExcept(i)
            /\ UNCHANGED reader
    /\ UNCHANGED <<inputs, json_content, original_text, customer_name, email, text, outcome>>

\* next(reader, None): an exhausted reader is not an error
SkipHeaderLenient(i) ==
    /\ pc[i] = "skip_header"
    /\ reader' = [reader EXCEPT ![i] = @ + 1]
    /\ Goto(i, "loop")
    /\ UNCHANGED <<inputs, json_content, original_text, customer_name, email, text, outcome>>

\* next(reader): StopIteration when the table has no row
SkipHeader(i) ==
    /\ pc[i] = "skip_header"
    /\ IF reader[i] <= Len(custObj.rows)
       THEN /\ reader' = [reader EXCEPT ![i] = @ + 1]
            /\ Goto(i, "loop")
       ELSE /\ OuterExcept(i)
            /\ UNCHANGED reader
    /\ UNCHANGED <<inputs, json_content, original_text, customer_name, email, text, outcome>>

\* row[1], the wrong column
RowEmailFirst(row) == row[1]

\* email = row[1]
RowEmail(row) == row[2]

\* the loop body up to the try statement, as the new values of the locals;
\* this one renders into original_text
RowLocalsAccumulate(orig, row) ==
    [original_text |-> Replace(orig, CUSTOMER_NAME, row[1]),
     customer_name |-> row[1],
     email |-> RowEmail(row),
     text |-> Replace(orig, CUSTOMER_NAME, row[1])]

\* customer_name = row[0]; email = row[1];
\* text = original_text.replace("customer_name", customer_name)
RowLocals(orig, row) ==
    [original_text |-> orig,
     customer_name |-> row[1],
     email |-> RowEmail(row),
     text |-> Replace(orig, CUSTOMER_NAME, row[1])]

\* the row the reader yields next, and its number among the data rows
NextRow(i) == custObj.rows[reader[i]]
RowNo(i) == reader[i] - 2

\* a row with fewer than two columns is skipped
LoopSkipMalformed(i) ==
    /\ pc[i] = "loop"
    /\ IF reader[i] > Len(custObj.rows)
       THEN /\ pc' = [pc EXCEPT ![i] = "done"]
            /\ result' = [result EXCEPT ![i] = "returned"]
            /\ UNCHANGED <<trace, original_text, reader, customer_name, email, text>>
       ELSE IF Len(NextRow(i)) < 2
       THEN /\ reader' = [reader EXCEPT ![i] = @ + 1]
            /\ UNCHANGED <<pc, trace, result, original_text, customer_name, email, text>>
       ELSE LET l == RowLocals(original_text[i], NextRow(i))
            IN /\ reader' = [reader EXCEPT ![i] = @ + 1]
               /\ original_text' = [original_text EXCEPT ![i] = l.original_text]
               /\ customer_name' = [customer_name EXCEPT ![i] = l.customer_name]
               /\ email' = [email EXCEPT ![i] = l.email]
               /\ text' = [text EXCEPT ![i] = l.text]
               /\ Goto(i, "send")
    /\ UNCHANGED <<inputs, json_content, outcome>>

\* a row whose address another invocation already handled is skipped
LoopDedup(i) ==
    /\ pc[i] = "loop"
    /\ IF reader[i] > Len(custObj.rows)
       THEN /\ pc' = [pc EXCEPT ![i] = "done"]
            /\ result' = [result EXCEPT ![i] = "returned"]
            /\ UNCHANGED <<trace, original_text, reader, customer_name, email, text>>
       ELSE IF Len(NextRow(i)) < 2
       THEN /\ OuterExcept(i)
            /\ UNCHANGED <<original_text, reader, customer_name, email, text>>
       ELSE IF \E o \in Invocations \ {i} : \E n \in 1..Len(trace[o]) :
                   trace[o][n].type = "attempt" /\ trace[o][n].email = NextRow(i)[2]
       THEN /\ reader' = [reader EXCEPT ![i] = @ + 1]
            /\ UNCHANGED <<pc, trace, result, original_text, customer_name, email, text>>
       ELSE LET l == RowLocals(original_text[i], NextRow(i))
            IN /\ reader' = [reader EXCEPT ![i] = @ + 1]
               /\ original_text' = [original_text EXCEPT ![i] = l.original_text]
               /\ customer_name' = [customer_name EXCEPT ![i] = l.customer_name]
               /\ email' = [email EXCEPT ![i] = l.email]
               /\ text' = [text EXCEPT ![i] = l.text]
               /\ Goto(i, "send")
    /\ UNCHANGED <<inputs, json_content, outcome>>

\* for row in reader: ... up to the try statement; the loop ends when the
\* reader is exhausted, row[0] or row[1] raises IndexError on a short row
Loop(i) ==
    /\ pc[i] = "loop"
    /\ IF reader[i] > Len(custObj.rows)
       THEN /\ pc' = [pc EXCEPT ![i] = "done"]
            /\ result' = [result EXCEPT ![i] = "returned"]
            /\ UNCHANGED <<trace, original_text, reader, customer_name, email, text>>
       ELSE IF Len(NextRow(i)) < 2
       THEN /\ OuterExcept(i)
            /\ reader' = [reader EXCEPT ![i] = @ + 1]
            /\ customer_name' = [customer_name EXCEPT ![i] =
                                    IF Len(NextRow(i)) = 1 THEN NextRow(i)[1] ELSE @]
            /\ UNCHANGED <<original_text, email, text>>
       ELSE LET l == RowLocals(original_text[i], NextRow(i))
            IN /\ reader' = [reader EXCEPT ![i] = @ + 1]
               /\ original_text' = [original_text EXCEPT ![i] = l.original_text]
               /\ customer_name' = [customer_name EXCEPT ![i] = l.customer_name]
               /\ email' = [email EXCEPT ![i] = l.email]
               /\ text' = [text EXCEPT ![i] = l.text]
               /\ Goto(i, "send")
    /\ UNCHANGED <<inputs, json_content, outcome>>

\* how the send statement ends: the arguments are evaluated first, Source
\* before Subject, and only then SES is called and answers r
SendOutcome(isSet, doc, r) ==
    IF ~isSet THEN "KeyError"
    ELSE IF ~HasKey(doc, SUBJECT) THEN "KeyError"
    ELSE r

\* try: response = ses_client.send_email(...)
Send(i) ==
    /\ pc[i] = "send"
    /\ \E r \in SesResults :
         LET o == SendOutcome(env, json_content[i], r)
         IN /\ outcome' = [outcome EXCEPT ![i] = o]
            /\ trace' = [trace EXCEPT ![i] =
                  Append(@, AttemptEv(RowNo(i), email[i], text[i], o))]
    /\ pc' = [pc EXCEPT ![i] = "log"]
    /\ UNCHANGED <<inputs, json_content, original_text, reader, customer_name, email, text, result>>

\* a failed send is tried again
AfterSendRetry(i) ==
    /\ pc[i] = "log"
    /\ IF outcome[i] = "ok"
       THEN /\ trace' = [trace EXCEPT ![i] = Append(@, SentEv(RowNo(i), email[i]))]
            /\ pc' = [pc EXCEPT ![i] = "loop"]
       ELSE /\ trace' = [trace EXCEPT ![i] = Append(@, SendErrorEv(RowNo(i), email[i], outcome[i]))]
            /\ pc' = [pc EXCEPT ![i] = "send"]
    /\ outcome' = [outcome EXCEPT ![i] = "none"]
    /\ UNCHANGED <<inputs, json_content, original_text, reader, customer_name, email, text, result>>

\* the inner handler is missing: a failed send reaches the outer handler
AfterSendAbort(i) ==
    /\ pc[i] = "log"
    /\ IF outcome[i] = "ok"
       THEN /\ trace' = [trace EXCEPT ![i] = Append(@, SentEv(RowNo(i), email[i]))]
            /\ pc' = [pc EXCEPT ![i] = "loop"]
            /\ UNCHANGED result
       ELSE OuterExcept(i)
    /\ outcome' = [outcome EXCEPT ![i] = "none"]
    /\ UNCHANGED <<inputs, json_content, original_text, reader, customer_name, email, text>>

\* print("Email sent to ...") after the call, or the inner
\* except Exception: print("Error sending email to ..."); then the next row
AfterSend(i) ==
    /\ pc[i] = "log"
    /\ trace' = [trace EXCEPT ![i] =
          Append(@, IF outcome[i] = "ok"
                    THEN SentEv(RowNo(i), email[i])
                    ELSE SendErrorEv(RowNo(i), email[i], outcome[i]))]
    /\ outcome' = [outcome EXCEPT ![i] = "none"]
    /\ pc' = [pc EXCEPT ![i] = "loop"]
    /\ UNCHANGED <<inputs, json_content, original_text, reader, customer_name, email, text, result>>

Next ==
    \/ \E i \in Invocations : Extract(i)
    \/ \E i \in Invocations : ReadJson(i)
    \/ \E i \in Invocations : ReadText(i)
    \/ \E i \in Invocations : SubstituteAll(i)
    \/ \E i \in Invocations : ReadCsv(i)
    \/ \E i \in Invocations : SkipHeader(i)
    \/ \E i \in Invocations : Loop(i)
    \/ \E i \in Invocations : Send(i)
    \/ \E i \in Invocations : AfterSend(i)

Spec == Init /\ [][Next]_vars

\* the tables of the duplicate deliveries: the first n sample recipients,
\* and one table with a short row
SampleRows == <<AliceRow, BobRow, TokenRow, BobRow>>
DupTables ==
    {<<HeaderRow>> \o SubSeq(SampleRows, 1, n) :
        n \in 0..(IF MaxRows < Len(SampleRows) THEN MaxRows ELSE Len(SampleRows))}
    \cup {<<HeaderRow, ShortRow, AliceRow>>}

\* the same trigger delivered one or more times, the spec's sample job
InitDup ==
    /\ event = GoodEvent
    /\ jobObj = [status |-> "ok", doc |-> ExampleDoc]
    /\ tplObj = [exists |-> TRUE, text |-> Tpl1]
    /\ custObj \in {[exists |-> TRUE, rows |-> t] : t \in DupTables}
    /\ env \in BOOLEAN
    /\ deliveries \in 1..MaxDeliveries
    /\ InitLocals

SpecDup == InitDup /\ [][Next]_vars

\* job documents with up to two generated placeholder pairs after the
\* reserved keys, and generated templates
ExtraItems ==
    {Item(k, v) : k \in Strings(Alphabet, 0, MaxStr), v \in Strings(Alphabet, 0, MaxStr - 1)}
ExtraDocs ==
    {<<>>} \cup {<<a>> : a \in ExtraItems}
    \cup {d \in ExtraItems \X ExtraItems : d[1].key # d[2].key}
GeneratedTemplates == Strings(Alphabet, 0, MaxStr + 1)

\* generated documents and templates with a table of only the header, and
\* the spec's sample job with one recipient
InitRender ==
    /\ event = GoodEvent
    /\ \/ /\ jobObj \in {[status |-> "ok", doc |-> <<ItemP, ItemC, ItemS>> \o d] : d \in ExtraDocs}
          /\ tplObj \in {[exists |-> TRUE, text |-> t] : t \in GeneratedTemplates}
          /\ custObj = [exists |-> TRUE, rows |-> <<HeaderRow>>]
       \/ /\ jobObj = [status |-> "ok", doc |-> ExampleDoc]
          /\ tplObj = [exists |-> TRUE, text |-> Tpl1]
          /\ custObj = [exists |-> TRUE, rows |-> <<HeaderRow, AliceRow>>]
    /\ env = TRUE
    /\ deliveries = 1
    /\ InitLocals

SpecRender == InitRender /\ [][Next]_vars

(* ------------------------ vocabulary of the claims --------------------- *)
IsAttempt(e) == e.type = "attempt"
IsHandlerError(e) == e.type = "handler_error"
IsSendError(e) == e.type = "send_error"
Attempts(i) == SelectSeq(trace[i], IsAttempt)
HandlerErrors(i) == SelectSeq(trace[i], IsHandlerError)
SendErrors(i) == SelectSeq(trace[i], IsSendError)

\* number of data rows and the j-th data row of the table in the bucket
R == Len(custObj.rows) - 1
DataRow(j) == custObj.rows[j + 1]
WellFormed(j) == Len(DataRow(j)) >= 2
AllWellFormed == \A j \in 1..R : WellFormed(j)

\* every step before the table is iterated succeeds
TableRead ==
    /\ EventOk(event)
    /\ jobObj.status = "ok"
    /\ Readable(jobObj.doc, PATH_TO_TEXT_FILE, TplPath, tplObj.exists)
    /\ ~Pass1Fails(jobObj.doc)
    /\ Readable(jobObj.doc, PATH_TO_CUSTOMER_FILE, CustPath, custObj.exists)
\* ... and the table has its header row
ReachesLoop == TableRead /\ custObj.rows # <<>>

\* the pass-1 output and the body of a row, from the inputs
Rendered == Pass1(jobObj.doc, tplObj.text)
BodyFor(j) == Replace(Rendered, CUSTOMER_NAME, DataRow(j)[1])

ConfigPresent == env /\ HasKey(jobObj.doc, SUBJECT)

(* ------------------------------- claims -------------------------------- *)

\* C1: an invocation that reads a table of a header and R data rows, each
\* with at least two columns, ends with exactly R dispatch attempts; the
\* j-th is for data row j, addressed to the row's second column, with the
\* body rendered from the row's first column; with the sender address and
\* the subject present every attempt is a call of send_email; for R = 0
\* nothing is attempted and nothing is logged.
C1_OneAttemptPerRow ==
    \A i \in Invocations :
        (pc[i] = "done" /\ ReachesLoop /\ AllWellFormed) =>
            /\ Len(Attempts(i)) = R
            /\ \A j \in 1..R :
                  /\ Attempts(i)[j].row = j
                  /\ Attempts(i)[j].email = DataRow(j)[2]
                  /\ Attempts(i)[j].body = BodyFor(j)
                  /\ ConfigPresent => Attempts(i)[j].info # "KeyError"
            /\ R = 0 => trace[i] = <<>>
            /\ result[i] = "returned"

\* the spec's end-to-end example: "Hello Alice" to a@x.com, "Hello Bob" to b@x.com
C1_Witness ==
    /\ pc[1] = "done"
    /\ jobObj.doc = ExampleDoc
    /\ tplObj.text = Tpl1
    /\ custObj.rows = <<HeaderRow, AliceRow, BobRow>>
    /\ trace[1] = <<AttemptEv(1, AliceMail, HelloAlice, "ok"), SentEv(1, AliceMail),
                    AttemptEv(2, BobMail, HelloBob, "ok"), SentEv(2, BobMail)>>

\* C2: when SES fails the call for data row r, the next line printed is the
\* send error with that row's address, the top-level handler is not reached
\* by it, and every later row up to which all rows are well formed is
\* attempted by the time the invocation ends.
C2_SendFailureIsolated ==
    \A i \in Invocations : \A p \in 1..Len(trace[i]) :
        LET e == trace[i][p]
        IN (IsAttempt(e) /\ e.info = "ClientError") =>
            /\ p = Len(trace[i]) => pc[i] = "log"
            /\ p < Len(trace[i]) =>
                  trace[i][p + 1] = SendErrorEv(e.row, DataRow(e.row)[2], "ClientError")
            /\ pc[i] = "done" =>
                  \A j \in (e.row + 1)..R :
                      (\A m \in (e.row + 1)..j : WellFormed(m)) =>
                          \E q \in (p + 1)..Len(trace[i]) :
                              IsAttempt(trace[i][q]) /\ trace[i][q].row = j
            /\ (pc[i] = "done" /\ AllWellFormed) =>
                  (HandlerErrors(i) = <<>> /\ Len(Attempts(i)) = R)

\* the first of two rows fails at SES and the second is still attempted
C2_Witness ==
    /\ pc[1] = "done"
    /\ R = 2
    /\ Len(trace[1]) = 4
    /\ trace[1][1].type = "attempt" /\ trace[1][1].info = "ClientError"
    /\ trace[1][2].type = "send_error"
    /\ trace[1][3].type = "attempt" /\ trace[1][3].row = 2

\* C3 (as stated): with SES_SOURCE_EMAIL absent the failure is caught once
\* at the top level, logged once with the generic message, and the
\* remaining rows are not attempted; no per-recipient error is logged.
C3_ConfigMissingAbortsAtTopLevel ==
    \A i \in Invocations :
        (pc[i] = "done" /\ ReachesLoop /\ ~env /\ R >= 1 /\ WellFormed(1)) =>
            /\ Len(HandlerErrors(i)) = 1
            /\ SendErrors(i) = <<>>
            /\ Len(Attempts(i)) <= 1

\* some step before the row loop fails: the trigger, the job document, a
\* path key, the template, pass 1 or the table
PreLoopFails == ~TableRead

\* C4: when a step before the row loop fails, nothing is ever attempted and
\* the invocation ends with exactly the one top-level error line, returning
\* normally.
C4_PreLoopFailureLoggedOnce ==
    \A i \in Invocations :
        PreLoopFails =>
            /\ Attempts(i) = <<>>
            /\ result[i] # "raised"
            /\ pc[i] = "done" => (trace[i] = <<HandlerErrorEv>> /\ result[i] = "returned")

\* the job document has no path_to_text_file key
C4_Witness ==
    /\ pc[1] = "done"
    /\ EventOk(event)
    /\ jobObj.status = "ok"
    /\ ~HasKey(jobObj.doc, PATH_TO_TEXT_FILE)
    /\ custObj.exists /\ R = 2 /\ AllWellFormed
    /\ trace[1] = <<HandlerErrorEv>>

\* the placeholder keys of the job document: those that are not reserved
ReservedKeys == {PATH_TO_TEXT_FILE, PATH_TO_CUSTOMER_FILE, SUBJECT}
ExtraKeys(doc) == {doc[n].key : n \in 1..Len(doc)} \ ReservedKeys
Values(doc) == {doc[n].value : n \in 1..Len(doc)}
Pass1Done(i) == pc[i] \in {"read_csv", "skip_header", "loop", "send", "log"}

\* k and v overlap: one contains the other, or a non-empty end of one is
\* the other end of the other
Overlaps(k, v) ==
    \/ Occurs(k, v)
    \/ Occurs(v, k)
    \/ \E n \in 1..Len(k) :
          \/ n <= Len(v) /\ SubSeq(k, Len(k) - n + 1, Len(k)) = SubSeq(v, 1, n)
          \/ n <= Len(v) /\ SubSeq(k, 1, n) = SubSeq(v, Len(v) - n + 1, Len(v))

NoValueContainsAnotherKey(doc) ==
    \A m, n \in 1..Len(doc) : m # n => ~Occurs(doc[n].key, doc[m].value)

\* C5 (as stated): provided no key's value contains another key's text, the
\* pass-1 output contains no occurrence of any placeholder key.
C5_NoKeyLeftAsStated ==
    \A i \in Invocations :
        (Pass1Done(i) /\ NoValueContainsAnotherKey(json_content[i])) =>
            \A k \in ExtraKeys(json_content[i]) : ~Occurs(k, original_text[i])

\* C5 (amended): a non-empty placeholder key that overlaps no value of the
\* job document, all of whose values are non-empty, does not occur in the
\* pass-1 output.
C5_NoKeyLeft ==
    \A i \in Invocations :
        Pass1Done(i) =>
            \A k \in ExtraKeys(json_content[i]) :
                (/\ k # <<>>
                 /\ \A v \in Values(json_content[i]) : v # <<>> /\ ~Overlaps(k, v))
                => ~Occurs(k, original_text[i])

\* a key that occurs twice in the template has been replaced
C5_Witness ==
    /\ pc[1] = "read_csv"
    /\ jobObj.doc = <<ItemP, ItemC, ItemS, Item(<<"B">>, <<"A">>)>>
    /\ tplObj.text = <<"B", "A", "B">>
    /\ original_text[1] = <<"A", "A", "A">>

\* C6: once pass 1 has run, original_text is its output and stays so, and
\* the body of every attempt is that output with every "customer_name"
\* replaced by the name of the attempt's row.
C6_BaseTextFixed ==
    \A i \in Invocations :
        /\ (TableRead /\ pc[i] \in {"read_csv", "skip_header", "loop", "send", "log", "done"})
              => original_text[i] = Rendered
        /\ \A p \in 1..Len(trace[i]) :
              IsAttempt(trace[i][p]) => trace[i][p].body = BodyFor(trace[i][p].row)

\* two rows with different names after a failed first send, the template
\* holding the token twice
C6_Witness ==
    /\ pc[1] = "done"
    /\ tplObj.text = Tpl2
    /\ custObj.rows = <<HeaderRow, AliceRow, BobRow>>
    /\ Len(Attempts(1)) = 2
    /\ Attempts(1)[1].info = "ClientError"
    /\ Attempts(1)[1].body = Alice \o <<":">> \o Alice
    /\ Attempts(1)[2].body = Bob \o <<":">> \o Bob

\* C7: for a data row f with fewer than two columns, row f and the rows
\* after it are never attempted and the invocation ends with exactly one
\* top-level error, printed last; the rows before f, if all well formed,
\* have each been attempted, in order.
C7_MalformedRowAborts ==
    \A i \in Invocations : \A f \in 1..R :
        (ReachesLoop /\ ~WellFormed(f)) =>
            /\ \A p \in 1..Len(trace[i]) : IsAttempt(trace[i][p]) => trace[i][p].row < f
            /\ pc[i] = "done" =>
                  /\ Len(HandlerErrors(i)) = 1
                  /\ trace[i][Len(trace[i])] = HandlerErrorEv
                  /\ result[i] = "returned"
                  /\ (\A m \in 1..(f - 1) : WellFormed(m)) =>
                        /\ Len(Attempts(i)) = f - 1
                        /\ \A m \in 1..(f - 1) : Attempts(i)[m].row = m

\* a one-column row between two good rows
C7_Witness ==
    /\ pc[1] = "done"
    /\ custObj.rows = <<HeaderRow, AliceRow, ShortRow>>
    /\ ReachesLoop
    /\ Len(Attempts(1)) = 1
    /\ trace[1][Len(trace[1])] = HandlerErrorEv

\* C8: a table without any row ends the invocation with one top-level
\* error, no attempt and a normal return; a table of only the header ends
\* it with nothing logged.
C8_EmptyTableFails ==
    \A i \in Invocations :
        (pc[i] = "done" /\ TableRead) =>
            /\ custObj.rows = <<>> => (trace[i] = <<HandlerErrorEv>> /\ result[i] = "returned")
            /\ custObj.rows = <<HeaderRow>> => (trace[i] = <<>> /\ result[i] = "returned")

C8_Witness ==
    /\ pc[1] = "done"
    /\ TableRead
    /\ custObj.rows = <<>>
    /\ trace[1] = <<HandlerErrorEv>>

RECURSIVE AttemptsUpTo(_)
AttemptsUpTo(n) == IF n = 0 THEN 0 ELSE Len(Attempts(n)) + AttemptsUpTo(n - 1)
TotalAttempts == AttemptsUpTo(deliveries)

\* C9: when the trigger is delivered k times and every invocation has
\* ended, a table of R well-formed data rows has been attempted k*R times
\* in total, every row once by every invocation.
C9_DuplicateDeliveries ==
    ((\A i \in Invocations : pc[i] = "done") /\ ReachesLoop /\ AllWellFormed) =>
        /\ TotalAttempts = deliveries * R
        /\ \A j \in 1..R : \A i \in Invocations :
              /\ Attempts(i)[j].row = j
              /\ Attempts(i)[j].email = DataRow(j)[2]

\* two deliveries, two rows, four attempts
C9_Witness ==
    /\ deliveries = 2
    /\ \A i \in Invocations : pc[i] = "done"
    /\ custObj.rows = <<HeaderRow, AliceRow, BobRow>>
    /\ TotalAttempts = 4
    /\ env

\* C10: the attempts of an invocation are for strictly increasing rows, and
\* every attempt is followed, before anything else happens, by exactly one
\* line for its row: sent or send error, as the statement ended.
C10_InOrderAtMostOnce ==
    \A i \in Invocations : \A p \in 1..Len(trace[i]) :
        LET e == trace[i][p]
        IN /\ IsAttempt(e) =>
                /\ \A q \in 1..(p - 1) : IsAttempt(trace[i][q]) => trace[i][q].row < e.row
                /\ p = Len(trace[i]) => pc[i] = "log"
                /\ p < Len(trace[i]) =>
                      trace[i][p + 1] = IF e.info = "ok" THEN SentEv(e.row, e.email)
                                        ELSE SendErrorEv(e.row, e.email, e.info)
           /\ e.type \in {"sent", "send_error"} =>
                /\ p > 1
                /\ IsAttempt(trace[i][p - 1])
                /\ trace[i][p - 1].row = e.row

\* a failed attempt for row 1, logged, then a successful one for row 2
C10_Witness ==
    /\ pc[1] = "done"
    /\ Len(trace[1]) = 4
    /\ trace[1][1].type = "attempt" /\ trace[1][1].info = "ClientError" /\ trace[1][1].row = 1
    /\ trace[1][2] = SendErrorEv(1, trace[1][1].email, "ClientError")
    /\ trace[1][3].type = "attempt" /\ trace[1][3].info = "ok" /\ trace[1][3].row = 2
    /\ trace[1][4].type = "sent"

====
